---- MODULE Spec2Model ----
(***************************************************************************)
(* yamlvalid (src/main.go): reads one YAML file, decodes it into a Pod and *)
(* validates the Pod, collecting every violation in an ordered list.       *)
(*                                                                         *)
(* Conventions of the model                                                *)
(*  - a Go string is a sequence of one-character strings, so that prefix,  *)
(*    substring and regular-expression tests are computed on characters;   *)
(*    the empty string "" is <<>>;                                         *)
(*  - an optional value (a YAML key that may be missing, a Go pointer or   *)
(*    map that may be nil) is a sequence of length at most one: <<>> is    *)
(*    missing/nil and <<v>> is present;                                    *)
(*  - a Go map is a function from its keys; ranging over it visits the     *)
(*    keys in an order the runtime chooses, so a walk takes the order as   *)
(*    an argument and the callers range over every order;                  *)
(*  - an error value is a record [index, field, msg, arg]: the container   *)
(*    index of the message (-1 for the top-level messages), the field path *)
(*    it names, the rest of the text, and the %s argument if any.          *)
(***************************************************************************)
EXTENDS Integers, Sequences, FiniteSets, TLC

VARIABLES pc, argc, content, stages, pod, errs, i, exitCode, prev, round

vars == <<pc, argc, content, stages, pod, errs, i, exitCode, prev, round>>

(***************************************************************************)
(* Bounds                                                                  *)
(***************************************************************************)
MaxContainers == 2

(***************************************************************************)
(* Strings                                                                 *)
(***************************************************************************)
Lower == {"a","b","c","d","e","f","g","h","i","j","k","l","m",
          "n","o","p","q","r","s","t","u","v","w","x","y","z"}
Digit == {"0","1","2","3","4","5","6","7","8","9"}

EmptyStr == <<>>
Nil == <<>>
Some(v) == <<v>>

S_v1 == <<"v","1">>
S_v2 == <<"v","2">>
S_Pod == <<"P","o","d">>
S_Deployment == <<"D","e","p","l","o","y","m","e","n","t">>
S_ok == <<"o","k">>
S_linux == <<"l","i","n","u","x">>
S_windows == <<"w","i","n","d","o","w","s">>
S_macos == <<"m","a","c","o","s">>
S_web == <<"w","e","b">>
S_Web == <<"W","e","b">>
S_web_1 == <<"w","e","b","_","1">>
S_web_dash == <<"w","e","b","-","1">>
S_TCP == <<"T","C","P">>
S_UDP == <<"U","D","P">>
S_SCTP == <<"S","C","T","P">>
S_slash == <<"/">>
S_colon == <<":">>
S_healthz == <<"/","h","e","a","l","t","h","z">>
S_relhealthz == <<"h","e","a","l","t","h","z">>
S_registry == <<"r","e","g","i","s","t","r","y",".","b","i","g","b","r","o","t","h","e","r",".","i","o","/">>
S_myapp == <<"m","y","a","p","p">>
S_myapp_tag == <<"m","y","a","p","p",":","1">>
S_app == S_registry \o <<"a","p","p">>
S_app_tag == S_registry \o <<"a","p","p",":","1",".","0">>
S_1 == <<"1">>
S_4 == <<"4">>
S_4_5 == <<"4",".","5">>
S_four == <<"f","o","u","r">>
S_256Mi == <<"2","5","6","M","i">>
S_512Mi == <<"5","1","2","M","i">>
S_512 == <<"5","1","2">>
S_512XB == <<"5","1","2","X","B">>
S_Gi == <<"G","i">>
S_Mi == <<"M","i">>
S_Ki == <<"K","i">>

\* strings.HasPrefix(s, prefix)
HasPrefix(s, prefix) ==
    /\ Len(s) >= Len(prefix)
    /\ SubSeq(s, 1, Len(prefix)) = prefix

\* strings.Contains(s, substr)
Contains(s, substr) ==
    \E k \in 1..(Len(s) - Len(substr) + 1) :
        SubSeq(s, k, k + Len(substr) - 1) = substr

AllIn(s, chars) == \A k \in 1..Len(s) : s[k] \in chars

\* regexp.MatchString(`^[a-z0-9_]+$`, s): the match result
MatchSnake(s) == Len(s) >= 1 /\ AllIn(s, Lower \cup Digit \cup {"_"})

\* regexp.MatchString(`^\d+$`, s): the pair (matched, err); the pattern is a
\* constant that compiles, so err is nil (FALSE) whatever s is
MatchDigits(s) ==
    [matched |-> Len(s) >= 1 /\ AllIn(s, Digit), err |-> FALSE]

\* regexp.MustCompile(`^\d+(Gi|Mi|Ki)$`).MatchString(s)
MatchMemory(s) ==
    /\ Len(s) >= 3
    /\ SubSeq(s, Len(s) - 1, Len(s)) \in {S_Gi, S_Mi, S_Ki}
    /\ AllIn(SubSeq(s, 1, Len(s) - 2), Digit)

(***************************************************************************)
(* Errors                                                                  *)
(***************************************************************************)
\* the index of the messages that name no container
TopLevel == 0 - 1

Err(index, field, msg) == [index |-> index, field |-> field, msg |-> msg, arg |-> ""]

ErrArg(index, field, msg, arg) ==
    [index |-> index, field |-> field, msg |-> msg, arg |-> arg]

\* every ordering of the keys of a map: the orders `for k, v := range m` may take
Orders(m) ==
    {o \in [1..Cardinality(DOMAIN m) -> DOMAIN m] :
        \A a, b \in 1..Cardinality(DOMAIN m) : a # b => o[a] # o[b]}

RECURSIVE Flatten(_)
Flatten(ss) == IF ss = <<>> THEN <<>> ELSE Head(ss) \o Flatten(Tail(ss))

(***************************************************************************)
(* Decoding: yaml.Unmarshal(content, &pod) on a well-formed document.      *)
(* The parsed document gives each key the structs name as an optional      *)
(* value.  A missing scalar leaves the field's zero value ("" or 0), a     *)
(* missing block of struct type leaves the zero struct, a missing block    *)
(* of pointer, slice or map type leaves nil.  Keys the structs do not name *)
(* (and namespace and labels, which Validate never reads) are left out.    *)
(***************************************************************************)
DecodeStr(o) == IF o = Nil THEN EmptyStr ELSE o[1]

DecodeInt(o) == IF o = Nil THEN 0 ELSE o[1]

DecodeHTTPGet(o) ==
    IF o = Nil THEN [path |-> EmptyStr, port |-> 0]
    ELSE [path |-> DecodeStr(o[1].path), port |-> DecodeInt(o[1].port)]

DecodeProbe(o) ==
    IF o = Nil THEN Nil ELSE Some([httpGet |-> DecodeHTTPGet(o[1].httpGet)])

DecodeContainerPort(o) ==
    IF o = Nil THEN Nil
    ELSE Some([containerPort |-> DecodeInt(o[1].containerPort),
               protocol |-> DecodeStr(o[1].protocol)])

DecodeResources(o) ==
    IF o = Nil THEN [requests |-> Nil, limits |-> Nil]
    ELSE [requests |-> o[1].requests, limits |-> o[1].limits]

DecodeContainer(rc) ==
    [name |-> DecodeStr(rc.name),
     image |-> DecodeStr(rc.image),
     ports |-> DecodeContainerPort(rc.ports),
     readinessProbe |-> DecodeProbe(rc.readinessProbe),
     livenessProbe |-> DecodeProbe(rc.livenessProbe),
     resources |-> DecodeResources(rc.resources)]

DecodePodOS(o) == IF o = Nil THEN Nil ELSE Some([name |-> DecodeStr(o[1].name)])

DecodeContainers(o) ==
    IF o = Nil THEN <<>>
    ELSE [k \in 1..Len(o[1]) |-> DecodeContainer(o[1][k])]

DecodePodSpec(o) ==
    IF o = Nil THEN [os |-> Nil, containers |-> <<>>]
    ELSE [os |-> DecodePodOS(o[1].os), containers |-> DecodeContainers(o[1].containers)]

DecodeObjectMeta(o) ==
    IF o = Nil THEN [name |-> EmptyStr] ELSE [name |-> DecodeStr(o[1].name)]

Decode(doc) ==
    [apiVersion |-> DecodeStr(doc.apiVersion),
     kind |-> DecodeStr(doc.kind),
     metadata |-> DecodeObjectMeta(doc.metadata),
     spec |-> DecodePodSpec(doc.spec)]

\* var pod Pod
ZeroPod ==
    [apiVersion |-> EmptyStr, kind |-> EmptyStr, metadata |-> [name |-> EmptyStr],
     spec |-> [os |-> Nil, containers |-> <<>>]]

(***************************************************************************)
(* Validation                                                              *)
(***************************************************************************)
\* len(m) of a map that may be nil
MapLen(o) == IF o = Nil THEN 0 ELSE Cardinality(DOMAIN o[1])

\* Pod.Validate with the os check not guarded by p.Spec.OS != nil
PodValidateTopUnguardedOS(p) ==
    Flatten(<<
        IF p.apiVersion # S_v1
            THEN <<Err(TopLevel, <<"apiVersion">>, "must be 'v1'")>> ELSE <<>>,
        IF p.kind # S_Pod
            THEN <<Err(TopLevel, <<"kind">>, "must be 'Pod'")>> ELSE <<>>,
        IF p.metadata.name = EmptyStr
            THEN <<Err(TopLevel, <<"metadata.name">>, "is required")>> ELSE <<>>,
        IF Len(p.spec.containers) = 0
            THEN <<Err(TopLevel, <<"spec.containers">>, "must not be empty")>> ELSE <<>>,
        IF p.spec.os = Nil
           \/ (p.spec.os[1].name # S_linux /\ p.spec.os[1].name # S_windows)
            THEN <<Err(TopLevel, <<"spec.os.name">>, "must be 'linux' or 'windows'")>>
            ELSE <<>>
    >>)

\* Pod.Validate with the check of an empty container list left out
PodValidateTopNoEmptyCheck(p) ==
    Flatten(<<
        IF p.apiVersion # S_v1
            THEN <<Err(TopLevel, <<"apiVersion">>, "must be 'v1'")>> ELSE <<>>,
        IF p.kind # S_Pod
            THEN <<Err(TopLevel, <<"kind">>, "must be 'Pod'")>> ELSE <<>>,
        IF p.metadata.name = EmptyStr
            THEN <<Err(TopLevel, <<"metadata.name">>, "is required")>> ELSE <<>>,
        IF p.spec.os # Nil /\ p.spec.os[1].name # S_linux /\ p.spec.os[1].name # S_windows
            THEN <<Err(TopLevel, <<"spec.os.name">>, "must be 'linux' or 'windows'")>>
            ELSE <<>>
    >>)

\* Pod.Validate, the checks before the loop over the containers
PodValidateTop(p) ==
    Flatten(<<
        IF p.apiVersion # S_v1
            THEN <<Err(TopLevel, <<"apiVersion">>, "must be 'v1'")>> ELSE <<>>,
        IF p.kind # S_Pod
            THEN <<Err(TopLevel, <<"kind">>, "must be 'Pod'")>> ELSE <<>>,
        IF p.metadata.name = EmptyStr
            THEN <<Err(TopLevel, <<"metadata.name">>, "is required")>> ELSE <<>>,
        IF Len(p.spec.containers) = 0
            THEN <<Err(TopLevel, <<"spec.containers">>, "must not be empty")>> ELSE <<>>,
        IF p.spec.os # Nil /\ p.spec.os[1].name # S_linux /\ p.spec.os[1].name # S_windows
            THEN <<Err(TopLevel, <<"spec.os.name">>, "must be 'linux' or 'windows'")>>
            ELSE <<>>
    >>)

\* Container.Validate: name
NameErrs(c, index) ==
    IF c.name = EmptyStr THEN <<Err(index, <<"name">>, "is required")>>
    ELSE IF ~MatchSnake(c.name) THEN <<Err(index, <<"name">>, "must be snake_case")>>
    ELSE <<>>

\* the image checks chained with else-if: one message at most
ImageErrsOneMessage(c, index) ==
    IF c.image = EmptyStr THEN <<Err(index, <<"image">>, "is required")>>
    ELSE IF ~HasPrefix(c.image, S_registry)
        THEN <<Err(index, <<"image">>, "must be from registry.bigbrother.io")>>
    ELSE IF ~Contains(c.image, S_colon)
        THEN <<Err(index, <<"image">>, "must contain tag")>>
    ELSE <<>>

\* Container.Validate: image
ImageErrs(c, index) ==
    IF c.image = EmptyStr THEN <<Err(index, <<"image">>, "is required")>>
    ELSE Flatten(<<
        IF ~HasPrefix(c.image, S_registry)
            THEN <<Err(index, <<"image">>, "must be from registry.bigbrother.io")>>
            ELSE <<>>,
        IF ~Contains(c.image, S_colon)
            THEN <<Err(index, <<"image">>, "must contain tag")>> ELSE <<>>
    >>)

\* Container.Validate: ports
PortsErrs(c, index) ==
    IF c.ports = Nil THEN <<>>
    ELSE Flatten(<<
        IF c.ports[1].containerPort <= 0 \/ c.ports[1].containerPort >= 65536
            THEN <<Err(index, <<"ports", "containerPort">>, "must be 1-65535")>>
            ELSE <<>>,
        IF /\ c.ports[1].protocol # EmptyStr
           /\ c.ports[1].protocol # S_TCP
           /\ c.ports[1].protocol # S_UDP
            THEN <<Err(index, <<"ports", "protocol">>, "must be TCP or UDP")>>
            ELSE <<>>
    >>)

\* Probe.Validate with the upper bound off by one
ProbeValidateOffByOne(p, index, probeType) ==
    Flatten(<<
        IF p.httpGet.path = EmptyStr
            THEN <<Err(index, <<probeType, "httpGet", "path">>, "is required")>>
        ELSE IF ~HasPrefix(p.httpGet.path, S_slash)
            THEN <<Err(index, <<probeType, "httpGet", "path">>, "must be absolute")>>
        ELSE <<>>,
        IF p.httpGet.port <= 0 \/ p.httpGet.port > 65536
            THEN <<Err(index, <<probeType, "httpGet", "port">>, "must be 1-65535")>>
            ELSE <<>>
    >>)

\* Probe.Validate
ProbeValidate(p, index, probeType) ==
    Flatten(<<
        IF p.httpGet.path = EmptyStr
            THEN <<Err(index, <<probeType, "httpGet", "path">>, "is required")>>
        ELSE IF ~HasPrefix(p.httpGet.path, S_slash)
            THEN <<Err(index, <<probeType, "httpGet", "path">>, "must be absolute")>>
        ELSE <<>>,
        IF p.httpGet.port <= 0 \/ p.httpGet.port >= 65536
            THEN <<Err(index, <<probeType, "httpGet", "port">>, "must be 1-65535")>>
            ELSE <<>>
    >>)

\* Container.Validate: probes
ProbesErrs(c, index) ==
    (IF c.readinessProbe # Nil
        THEN ProbeValidate(c.readinessProbe[1], index, "readinessProbe") ELSE <<>>)
    \o
    (IF c.livenessProbe # Nil
        THEN ProbeValidate(c.livenessProbe[1], index, "livenessProbe") ELSE <<>>)

\* the body of the switch in validateResourceMap, for one key and its value
ResourceKeyErrs(k, v, field, index) ==
    CASE k = "cpu" ->
            IF MatchDigits(v).err
                THEN <<Err(index, <<"resources", field, "cpu">>, "must be integer")>>
                ELSE <<>>
      [] k = "memory" ->
            IF ~MatchMemory(v)
                THEN <<Err(index, <<"resources", field, "memory">>,
                           "must have units Gi, Mi or Ki")>>
                ELSE <<>>
      [] OTHER ->
            <<ErrArg(index, <<"resources", field>>, "contains unknown key", k)>>

\* validateResourceMap(m, field) when the range visits the keys in `order`
validateResourceMap(m, field, index, order) ==
    Flatten([n \in 1..Len(order) |-> ResourceKeyErrs(order[n], m[order[n]], field, index)])

\* what validateResourceMap may append for a map that may be nil
MapWalks(o, field, index) ==
    IF o = Nil THEN {<<>>}
    ELSE {validateResourceMap(o[1], field, index, order) : order \in Orders(o[1])}

\* ResourceRequirements.Validate: the lists it may return
ResourceRequirementsValidate(r, index) ==
    {req \o lim : req \in MapWalks(r.requests, "requests", index),
                  lim \in MapWalks(r.limits, "limits", index)}

\* Container.Validate: resources
ResourcesErrs(c, index) ==
    IF MapLen(c.resources.requests) = 0 /\ MapLen(c.resources.limits) = 0
        THEN {<<Err(index, <<"resources">>, "is required")>>}
        ELSE ResourceRequirementsValidate(c.resources, index)

\* Container.Validate with the image checked before the name
ContainerValidateImageFirst(c, index) ==
    {ImageErrs(c, index) \o NameErrs(c, index) \o PortsErrs(c, index)
        \o ProbesErrs(c, index) \o res : res \in ResourcesErrs(c, index)}

\* Container.Validate: the lists it may return
ContainerValidate(c, index) ==
    {NameErrs(c, index) \o ImageErrs(c, index) \o PortsErrs(c, index)
        \o ProbesErrs(c, index) \o res : res \in ResourcesErrs(c, index)}

(***************************************************************************)
(* Documents                                                               *)
(***************************************************************************)
SeqUpTo(S, n) == UNION {[1..k -> S] : k \in 0..n}

RawProbe(path, port) == Some([httpGet |-> Some([path |-> path, port |-> port])])

RawPorts(containerPort, protocol) ==
    Some([containerPort |-> containerPort, protocol |-> protocol])

RawResources(requests, limits) == Some([requests |-> requests, limits |-> limits])

RawContainer(name, image, ports, readinessProbe, livenessProbe, resources) ==
    [name |-> name, image |-> image, ports |-> ports,
     readinessProbe |-> readinessProbe, livenessProbe |-> livenessProbe,
     resources |-> resources]

RawDoc(apiVersion, kind, metadata, os, containers) ==
    [apiVersion |-> apiVersion, kind |-> kind, metadata |-> metadata,
     spec |-> Some([os |-> os, containers |-> containers])]

\* a resource map holding the keys that are given
ResourceMap(cpu, memory, storage) ==
    LET keys == (IF cpu # Nil THEN {"cpu"} ELSE {})
                \cup (IF memory # Nil THEN {"memory"} ELSE {})
                \cup (IF storage # Nil THEN {"storage"} ELSE {})
    IN  [k \in keys |-> IF k = "cpu" THEN cpu[1]
                        ELSE IF k = "memory" THEN memory[1] ELSE storage[1]]

GoodRequests == Some(ResourceMap(Some(S_1), Some(S_256Mi), Nil))
GoodProbe == RawProbe(Some(S_healthz), Some(8080))
GoodPorts == RawPorts(Some(8080), Some(S_TCP))

\* the container of the valid end-to-end document
GoodContainer ==
    RawContainer(Some(S_web), Some(S_app_tag), GoodPorts, Nil, GoodProbe,
                 RawResources(GoodRequests, Nil))

\* the same with image `myapp` and container port 70000
BadImagePortContainer ==
    RawContainer(Some(S_web), Some(S_myapp), RawPorts(Some(70000), Some(S_TCP)), Nil,
                 GoodProbe, RawResources(GoodRequests, Nil))

\* a container block with no key at all
EmptyContainer == RawContainer(Nil, Nil, Nil, Nil, Nil, Nil)

\* a fault in every field
AllBadContainer ==
    RawContainer(Some(S_Web), Some(S_app), RawPorts(Some(0), Some(S_SCTP)),
                 RawProbe(Some(S_relhealthz), Some(65536)), RawProbe(Nil, Some(8080)),
                 RawResources(Some(ResourceMap(Nil, Some(S_512), Some(S_1))),
                              Some(ResourceMap(Some(S_4_5), Nil, Nil))))

\* blocks that are present but hold no key
HollowContainer ==
    RawContainer(Some(S_web_1), Some(S_app_tag), RawPorts(Nil, Nil), Nil,
                 Some([httpGet |-> Nil]), RawResources(Some(ResourceMap(Nil, Nil, Nil)), Nil))

LimitsOnlyContainer ==
    RawContainer(Some(S_web), Some(S_app_tag), Nil, Nil, Nil,
                 RawResources(Nil, Some(ResourceMap(Some(S_4), Nil, Nil))))

TwoUnknownKeysContainer ==
    RawContainer(Some(S_web), Some(S_myapp_tag), Nil, GoodProbe, Nil,
                 RawResources(Some(ResourceMap(Some(S_four), Some(S_512XB), Some(S_1))), Nil))

MainContainers ==
    {GoodContainer, BadImagePortContainer, EmptyContainer, AllBadContainer,
     HollowContainer, LimitsOnlyContainer, TwoUnknownKeysContainer}

RawOSs ==
    {Nil, Some([name |-> Nil]), Some([name |-> Some(S_linux)]),
     Some([name |-> Some(S_windows)]), Some([name |-> Some(S_macos)])}

\* the documents the program is run on
MainDocs ==
    {RawDoc(a, k, m, o, cs) :
        a \in {Nil, Some(S_v1), Some(S_v2)},
        k \in {Some(S_Pod), Some(S_Deployment)},
        m \in {Nil, Some([name |-> Some(S_ok)])},
        o \in RawOSs,
        cs \in {Nil} \cup {Some(q) : q \in SeqUpTo(MainContainers, MaxContainers)}}

PortValues == {Nil, Some(0 - 1), Some(0), Some(1), Some(8080), Some(65535), Some(65536),
               Some(70000)}

RawPortBlocks ==
    {Nil} \cup {RawPorts(n, pr) : n \in PortValues,
                                  pr \in {Nil, Some(S_TCP), Some(S_UDP), Some(S_SCTP)}}

RawProbes ==
    {Nil, Some([httpGet |-> Nil])}
    \cup {RawProbe(pa, n) : pa \in {Nil, Some(S_healthz), Some(S_relhealthz)},
                            n \in PortValues}

RawMaps ==
    {Nil} \cup {Some(ResourceMap(c, m, st)) :
                    c \in {Nil, Some(S_4), Some(S_4_5), Some(S_four)},
                    m \in {Nil, Some(S_512Mi), Some(S_512), Some(S_512XB)},
                    st \in {Nil, Some(S_1)}}

\* the containers Validate alone is run on: each group of fields over all its values
UnitContainers ==
    {RawContainer(n, im, po, Nil, GoodProbe, RawResources(GoodRequests, Nil)) :
        n \in {Nil, Some(EmptyStr), Some(S_web), Some(S_Web), Some(S_web_1),
               Some(S_web_dash)},
        im \in {Nil, Some(S_myapp), Some(S_myapp_tag), Some(S_app), Some(S_app_tag)},
        po \in RawPortBlocks}
    \cup
    {RawContainer(Some(S_web), Some(S_app_tag), GoodPorts, rp, lp,
                  RawResources(GoodRequests, Nil)) :
        rp \in RawProbes, lp \in RawProbes}
    \cup
    {RawContainer(Some(S_web), Some(S_app_tag), GoodPorts, Nil, GoodProbe,
                  RawResources(rq, li)) :
        rq \in RawMaps, li \in RawMaps}
    \cup
    {RawContainer(Some(S_web), Some(S_myapp), RawPorts(Some(70000), Nil), Nil, Nil,
                  RawResources(rq, Nil)) :
        rq \in RawMaps}

\* documents with one container and nothing wrong at top level
UnitDocs ==
    {RawDoc(Some(S_v1), Some(S_Pod), Some([name |-> Some(S_ok)]), Nil, Some(<<c>>)) :
        c \in UnitContainers}

(***************************************************************************)
(* main                                                                    *)
(***************************************************************************)
\* exitCode while the process runs
Running == 0 - 1

\* the status of a process whose main returns
ExitSuccess == 0

\* the arguments of the os.Exit calls of main
UsageStatus == 1
NotFoundStatus == 1
ReadErrorStatus == 1
DecodeErrorStatus == 1
ViolationStatus == 1

\* the stages main went through, each with what it found
Stage(name, ok) == [stage |-> name, ok |-> ok]

Found(name, ok) == stages' = Append(stages, Stage(name, ok))

\* os.Exit(code)
Exit(code) ==
    /\ exitCode' = code
    /\ pc' = "exit"

Goto(next) ==
    /\ pc' = next
    /\ UNCHANGED exitCode

Init ==
    /\ pc = "args"
    /\ argc \in 1..3
    /\ content = Nil
    /\ stages = <<>>
    /\ pod = ZeroPod
    /\ errs = <<>>
    /\ i = 0
    /\ exitCode = Running
    /\ prev = <<>>
    /\ round = 0

\* if len(os.Args) != 2 { ...; os.Exit(1) }
CheckArgs ==
    /\ pc = "args"
    /\ Found("args", argc = 2)
    /\ IF argc # 2 THEN Exit(UsageStatus) ELSE Goto("stat")
    /\ UNCHANGED <<argc, content, pod, errs, i, prev, round>>

\* if !fileExists(path) { ...; os.Exit(1) }
CheckFile ==
    /\ pc = "stat"
    /\ \E exists \in BOOLEAN :
        /\ Found("stat", exists)
        /\ IF ~exists THEN Exit(NotFoundStatus) ELSE Goto("read")
    /\ UNCHANGED <<argc, content, pod, errs, i, prev, round>>

\* content, err := ioutil.ReadFile(path); if err != nil { ...; os.Exit(1) }
ReadFile ==
    /\ pc = "read"
    /\ \E failed \in BOOLEAN :
        /\ Found("read", ~failed)
        /\ IF failed THEN Exit(ReadErrorStatus) ELSE Goto("decode")
    /\ UNCHANGED <<argc, content, pod, errs, i, prev, round>>

\* the decode failure given a status of its own
UnmarshalErrorOwnStatus ==
    /\ pc = "decode"
    /\ Found("decode", FALSE)
    /\ Exit(2)
    /\ UNCHANGED <<argc, content, pod, errs, i, prev, round>>

\* yaml.Unmarshal returns an error: os.Exit(1)
UnmarshalError ==
    /\ pc = "decode"
    /\ Found("decode", FALSE)
    /\ Exit(DecodeErrorStatus)
    /\ UNCHANGED <<argc, content, pod, errs, i, prev, round>>

\* yaml.Unmarshal fills pod from the document
Unmarshal ==
    /\ pc = "decode"
    /\ \E doc \in MainDocs :
        /\ content' = Some(doc)
        /\ pod' = Decode(doc)
    /\ Found("decode", TRUE)
    /\ Goto("validate")
    /\ UNCHANGED <<argc, errs, i, prev, round>>

\* Pod.Validate up to the loop
ValidateTop ==
    /\ pc = "validate"
    /\ errs' = PodValidateTop(pod)
    /\ i' = 0
    /\ pc' = "containers"
    /\ UNCHANGED <<argc, content, stages, pod, exitCode, prev, round>>

\* the loop with a container skipped once a violation is on the list
ValidateContainerStopEarly ==
    /\ pc = "containers"
    /\ i < Len(pod.spec.containers)
    /\ \E err \in ContainerValidate(pod.spec.containers[i + 1], i) :
        errs' = IF errs # <<>> THEN errs ELSE errs \o err
    /\ i' = i + 1
    /\ UNCHANGED <<pc, argc, content, stages, pod, exitCode, prev, round>>

\* one turn of `for i, c := range p.Spec.Containers`
ValidateContainer ==
    /\ pc = "containers"
    /\ i < Len(pod.spec.containers)
    /\ \E err \in ContainerValidate(pod.spec.containers[i + 1], i) :
        errs' = errs \o err
    /\ i' = i + 1
    /\ UNCHANGED <<pc, argc, content, stages, pod, exitCode, prev, round>>

\* return errs
ValidateReturn ==
    /\ pc = "containers"
    /\ i = Len(pod.spec.containers)
    /\ pc' = "validated"
    /\ UNCHANGED <<argc, content, stages, pod, errs, i, exitCode, prev, round>>

\* the report with the os.Exit(1) after the messages forgotten
ReportNoExit ==
    /\ pc = "validated"
    /\ round = 0
    /\ Found("validate", Len(errs) = 0)
    /\ Exit(ExitSuccess)
    /\ UNCHANGED <<argc, content, pod, errs, i, prev, round>>

\* if len(errs) > 0 { ...; os.Exit(1) }; fmt.Println("YAML is valid")
Report ==
    /\ pc = "validated"
    /\ round = 0
    /\ Found("validate", Len(errs) = 0)
    /\ IF Len(errs) > 0 THEN Exit(ViolationStatus) ELSE Exit(ExitSuccess)
    /\ UNCHANGED <<argc, content, pod, errs, i, prev, round>>

Next ==
    \/ CheckArgs
    \/ CheckFile
    \/ ReadFile
    \/ UnmarshalError
    \/ Unmarshal
    \/ ValidateTop
    \/ ValidateContainer
    \/ ValidateReturn
    \/ Report

Spec == Init /\ [][Next]_vars

(***************************************************************************)
(* Pod.Validate as a function of the decoded document, called twice on the *)
(* same document                                                           *)
(***************************************************************************)
InitValidate ==
    /\ pc = "validate"
    /\ argc = 2
    /\ \E doc \in UnitDocs :
        /\ content = Some(doc)
        /\ pod = Decode(doc)
    /\ stages = <<>>
    /\ errs = <<>>
    /\ i = 0
    /\ exitCode = Running
    /\ prev = <<>>
    /\ round = 1

\* the caller keeps the first list and calls Validate again
ValidateAgain ==
    /\ pc = "validated"
    /\ round = 1
    /\ prev' = errs
    /\ errs' = <<>>
    /\ i' = 0
    /\ round' = 2
    /\ pc' = "validate"
    /\ UNCHANGED <<argc, content, stages, pod, exitCode>>

NextValidate ==
    \/ ValidateTop
    \/ ValidateContainer
    \/ ValidateReturn
    \/ ValidateAgain

SpecValidate == InitValidate /\ [][NextValidate]_vars

(***************************************************************************)
(* Properties                                                              *)
(***************************************************************************)
Range(q) == {q[k] : k \in 1..Len(q)}

\* Validate has returned
Validated == pc = "validated"

Containers == pod.spec.containers

\* Go indexes of the containers
Indexes == 0..(Len(Containers) - 1)

\* the messages of errs that carry the index k, in their order
ErrsAt(k) == SelectSeq(errs, LAMBDA e : e.index = k)

\* the document as parsed, before decoding
RawSpec == content[1].spec[1]

RawContainerAt(k) == RawSpec.containers[1][k + 1]

CpuErr(k, field) == Err(k, <<"resources", field, "cpu">>, "must be integer")

ContainerPortErr(k) == Err(k, <<"ports", "containerPort">>, "must be 1-65535")

ProbePortErr(k, probeType) == Err(k, <<probeType, "httpGet", "port">>, "must be 1-65535")

OSErr == Err(TopLevel, <<"spec.os.name">>, "must be 'linux' or 'windows'")

EmptyContainersErr == Err(TopLevel, <<"spec.containers">>, "must not be empty")

OnlyDigits(v) == Len(v) >= 1 /\ \A k \in 1..Len(v) : v[k] \in Digit

\* C1: for every container and each of requests and limits, a cpu entry gets
\* the 'cpu must be integer' violation of that map exactly when its value is
\* not made only of ASCII digits.
C1_CpuMustBeInteger ==
    Validated =>
        \A k \in Indexes :
            LET r == Containers[k + 1].resources IN
            /\ (r.requests # Nil /\ "cpu" \in DOMAIN r.requests[1]) =>
                  (CpuErr(k, "requests") \in Range(errs)
                      <=> ~OnlyDigits(r.requests[1]["cpu"]))
            /\ (r.limits # Nil /\ "cpu" \in DOMAIN r.limits[1]) =>
                  (CpuErr(k, "limits") \in Range(errs)
                      <=> ~OnlyDigits(r.limits[1]["cpu"]))

\* the end-to-end document with image `myapp` and container port 70000
BadImagePortDoc ==
    RawDoc(Some(S_v1), Some(S_Pod), Some([name |-> Some(S_ok)]), Nil,
           Some(<<BadImagePortContainer>>))

\* C2 as stated: that document gets exactly two violations, the image one
\* first and the port one second.
C2_TwoViolations ==
    (Validated /\ content = Some(BadImagePortDoc)) =>
        /\ Len(errs) = 2
        /\ errs[1].field = <<"image">>
        /\ errs[2] = ContainerPortErr(0)

\* C2: that document gets exactly three violations: the two image violations
\* (registry, then tag) and after them the port violation.
C2_ThreeViolations ==
    (Validated /\ content = Some(BadImagePortDoc)) =>
        errs = <<Err(0, <<"image">>, "must be from registry.bigbrother.io"),
                 Err(0, <<"image">>, "must contain tag"),
                 ContainerPortErr(0)>>

C2_Witness ==
    /\ Validated
    /\ content = Some(BadImagePortDoc)
    /\ Len(errs) = 3

\* C3: a second Validate of the same decoded document returns the list the
\* first one returned, in the same order.
C3_Idempotent == (Validated /\ round = 2) => errs = prev

\* the place of a message in the stated order of the checks
FieldRank(e) ==
    LET f == Head(e.field) IN
    IF e.index = TopLevel
        THEN CASE f = "apiVersion" -> 1
               [] f = "kind" -> 2
               [] f = "metadata.name" -> 3
               [] f = "spec.containers" -> 4
               [] f = "spec.os.name" -> 5
        ELSE CASE f = "name" -> 1
               [] f = "image" -> 2
               [] f = "ports" -> 3
               [] f = "readinessProbe" -> 4
               [] f = "livenessProbe" -> 5
               [] f = "resources" -> 6

\* C4: in the list, the top-level violations come first in the order
\* apiVersion, kind, metadata.name, spec.containers, spec.os; then the
\* violations of container a before those of container b when a < b; and
\* within a container in the order name, image, port, readinessProbe,
\* livenessProbe, resources.
C4_Order ==
    \A a, b \in 1..Len(errs) :
        a < b =>
            \/ errs[a].index < errs[b].index
            \/ /\ errs[a].index = errs[b].index
               /\ FieldRank(errs[a]) <= FieldRank(errs[b])
               /\ errs[a].index = TopLevel => FieldRank(errs[a]) < FieldRank(errs[b])

C4_Witness ==
    /\ Validated
    /\ Len(PodValidateTop(pod)) >= 3
    /\ Len(Containers) = 2
    /\ \A k \in Indexes : \A n \in 1..6 : \E e \in Range(ErrsAt(k)) : FieldRank(e) = n

\* main left through os.Exit after yaml.Unmarshal failed
DecodeFailed ==
    /\ pc = "exit"
    /\ stages # <<>>
    /\ stages[Len(stages)] = Stage("decode", FALSE)

\* C5 as stated: the status of a decode failure differs from the success
\* status and from the status of a document with violations.
C5_DistinctStatus ==
    DecodeFailed => exitCode # ExitSuccess /\ exitCode # ViolationStatus

\* C5: the status of a decode failure differs from the success status and is
\* the status of a document with violations.
C5_SharedFailureStatus ==
    DecodeFailed => exitCode # ExitSuccess /\ exitCode = ViolationStatus

C5_Witness == DecodeFailed /\ exitCode = 1

StageNames == <<"args", "stat", "read", "decode", "validate">>

\* C6: the process exits 0 exactly when one argument was given, the file
\* exists, was read and decoded, and Validate returned no violation; every
\* other run exits 1; and no stage runs after the first one that fails.
C6_ExitStatus ==
    pc = "exit" =>
        /\ exitCode \in {0, 1}
        /\ exitCode = 0 <=>
              /\ argc = 2
              /\ Len(stages) = 5
              /\ \A k \in 1..5 : stages[k].ok
              /\ content # Nil
              /\ errs = <<>>
        /\ Len(stages) \in 1..5
        /\ \A k \in 1..Len(stages) : stages[k].stage = StageNames[k]
        /\ \A k \in 1..(Len(stages) - 1) : stages[k].ok
        /\ Len(stages) < 5 => ~stages[Len(stages)].ok
        /\ Len(stages) < 4 => content = Nil /\ pod = ZeroPod
        /\ Len(stages) < 5 => errs = <<>> /\ i = 0

C6_Witness ==
    /\ pc = "exit"
    /\ exitCode = 1
    /\ Len(stages) = 5
    /\ Len(errs) > 0

\* C7: when Validate returns, the top-level messages are those of the
\* top-level checks, and for every container index k the messages of
\* container k are a list Container.Validate(k) returns for that container
\* alone, whatever else is on the list; nothing else is on the list.
C7_NoEarlyStop ==
    Validated =>
        /\ ErrsAt(TopLevel) = PodValidateTop(pod)
        /\ \A k \in Indexes : ErrsAt(k) \in ContainerValidate(Containers[k + 1], k)
        /\ \A e \in Range(errs) : e.index \in {TopLevel} \cup Indexes

\* two containers with the same faults after top-level violations
C7_Witness ==
    /\ Validated
    /\ ErrsAt(TopLevel) # <<>>
    /\ Len(Containers) = 2
    /\ Containers[1] = Containers[2]
    /\ Len(ErrsAt(0)) >= 2
    /\ Len(ErrsAt(1)) = Len(ErrsAt(0))

OutOfRange(n) == n <= 0 \/ n >= 65536

InRange(n) == n \in 1..65535

\* the probes of a container that are present, with their names
ProbesOf(c) ==
    (IF c.readinessProbe # Nil THEN {<<"readinessProbe", c.readinessProbe[1]>>} ELSE {})
    \cup (IF c.livenessProbe # Nil THEN {<<"livenessProbe", c.livenessProbe[1]>>} ELSE {})

\* C8: for the containerPort of a present port block and the httpGet.port of
\* a present probe, a value <= 0 or >= 65536 gets the 'must be 1-65535'
\* violation of that field and a value in 1..65535 gets none.
C8_PortRange ==
    Validated =>
        \A k \in Indexes :
            LET c == Containers[k + 1] IN
            /\ c.ports # Nil =>
                /\ OutOfRange(c.ports[1].containerPort)
                      => ContainerPortErr(k) \in Range(errs)
                /\ InRange(c.ports[1].containerPort)
                      => ContainerPortErr(k) \notin Range(errs)
            /\ \A pr \in ProbesOf(c) :
                /\ OutOfRange(pr[2].httpGet.port)
                      => ProbePortErr(k, pr[1]) \in Range(errs)
                /\ InRange(pr[2].httpGet.port)
                      => ProbePortErr(k, pr[1]) \notin Range(errs)

C8_Witness ==
    /\ Validated
    /\ Len(Containers) = 1
    /\ Containers[1].readinessProbe # Nil
    /\ Containers[1].readinessProbe[1].httpGet.port = 65536
    /\ Containers[1].livenessProbe # Nil
    /\ Containers[1].livenessProbe[1].httpGet.port = 65535
    /\ ProbePortErr(0, "readinessProbe") \in Range(errs)
    /\ ProbePortErr(0, "livenessProbe") \notin Range(errs)

\* no message about the port block or a probe of a container that has none
AbsentBlocksSilent ==
    \A k \in Indexes :
        /\ RawContainerAt(k).ports = Nil =>
              \A e \in Range(ErrsAt(k)) : Head(e.field) # "ports"
        /\ RawContainerAt(k).readinessProbe = Nil =>
              \A e \in Range(ErrsAt(k)) : Head(e.field) # "readinessProbe"
        /\ RawContainerAt(k).livenessProbe = Nil =>
              \A e \in Range(ErrsAt(k)) : Head(e.field) # "livenessProbe"

\* C9 as stated: the spec.os.name violation is raised only when spec.os.name
\* is present with a value other than linux or windows, so never when the os
\* block or the os name is absent; and an absent port block or probe gets no
\* port or probe violation.
C9_OnlyPresentName ==
    Validated =>
        /\ OSErr \in Range(errs) =>
              /\ RawSpec.os # Nil
              /\ RawSpec.os[1].name # Nil
              /\ RawSpec.os[1].name[1] \notin {S_linux, S_windows}
        /\ AbsentBlocksSilent

\* C9: the spec.os.name violation is raised only when the os block is present
\* and its name, the empty string when the key is missing, is neither linux
\* nor windows; a document without os block never gets it; and an absent port
\* block or probe gets no port or probe violation.
C9_OnlyPresentBlock ==
    Validated =>
        /\ OSErr \in Range(errs) =>
              /\ RawSpec.os # Nil
              /\ DecodeStr(RawSpec.os[1].name) \notin {S_linux, S_windows}
        /\ RawSpec.os = Nil => OSErr \notin Range(errs)
        /\ AbsentBlocksSilent

C9_Witness ==
    /\ Validated
    /\ RawSpec.os = Some([name |-> Nil])
    /\ OSErr \in Range(errs)
    /\ Len(Containers) >= 1
    /\ RawContainerAt(0).ports = Nil
    /\ RawContainerAt(0).readinessProbe = Nil
    /\ RawContainerAt(0).livenessProbe = Nil
    /\ ErrsAt(0) # <<>>

\* C10: a document with apiVersion v1, kind Pod, a metadata.name and no os
\* block whose spec.containers is empty or absent gets exactly one
\* violation, the 'containers must not be empty' one.
C10_EmptyContainers ==
    (/\ Validated
     /\ content[1].apiVersion = Some(S_v1)
     /\ content[1].kind = Some(S_Pod)
     /\ DecodeObjectMeta(content[1].metadata).name # EmptyStr
     /\ RawSpec.os = Nil
     /\ RawSpec.containers \in {Nil, Some(<<>>)})
        => errs = <<EmptyContainersErr>>

C10_Witness ==
    /\ Validated
    /\ content[1].apiVersion = Some(S_v1)
    /\ content[1].kind = Some(S_Pod)
    /\ content[1].metadata = Some([name |-> Some(S_ok)])
    /\ RawSpec.os = Nil
    /\ RawSpec.containers = Some(<<>>)
    /\ errs = <<EmptyContainersErr>>

====
